---- MODULE Spec2Model ----
(***************************************************************************)
(* Academic Email Drafter (src/app.py): the Streamlit script, its session  *)
(* state (draft, error_message), the "Generate" handler and the function   *)
(* generate_email_draft (prompt composition, one chat-completion call,     *)
(* catch-all error conversion).                                            *)
(*                                                                         *)
(* Text is a sequence of tokens.  A token is either a literal piece of the *)
(* f-string template, a newline, or a piece of user input.  Concatenation  *)
(* (\o) models f-string interpolation; a "line" is a maximal run of tokens *)
(* between newlines.                                                       *)
(***************************************************************************)
EXTENDS Integers, Sequences, FiniteSets, TLC

VARIABLES
    env_key,        \* os.environ.get('OPENAI_API_KEY')            (line 8)
    ctor_raises,    \* whether openai.OpenAI(...) raises           (lines 13-15)
    draft,          \* st.session_state.draft                      (line 72)
    error_message,  \* st.session_state.error_message              (line 74)
    pc,             \* position of the running script / function
    caller,         \* who called generate_email_draft: "handler" or "direct"
    req,            \* the widget values / arguments of this run
    generate_button,\* st.button(...) of this run                  (line 130)
    ai_prompt,      \* the composed instruction                    (line 29)
    outcome,        \* what client.chat.completions.create did     (line 43)
    ret,            \* value returned by generate_email_draft
    calls,          \* outbound calls made by the current action
    shown,          \* texts displayed by the current script run
    before          \* history: <<draft, error_message>> when the run began

vars == <<env_key, ctor_raises, draft, error_message, pc, caller, req,
          generate_button, ai_prompt, outcome, ret, calls, shown, before>>

-----------------------------------------------------------------------------
(* Bounds of the model *)

\* longest user text, in tokens
MaxLen == 1

-----------------------------------------------------------------------------
(* Text *)

NL == "\n"
IND == "        "
Empty == <<>>

RECURSIVE SeqsUpTo(_, _)
SeqsUpTo(S, n) ==
    IF n = 0 THEN {<<>>}
    ELSE LET shorter == SeqsUpTo(S, n - 1)
         IN  shorter \cup {Append(s, c) : s \in shorter, c \in S}

\* Python truthiness of a str: non-empty
Truthy(s) == s # Empty

\* the lines of a text, as s.split("\n")
RECURSIVE Lines(_)
Lines(s) ==
    IF s = <<>> THEN << <<>> >>
    ELSE LET rest == Lines(Tail(s))
         IN  IF Head(s) = NL
             THEN << <<>> >> \o rest
             ELSE << <<Head(s)>> \o Head(rest) >> \o Tail(rest)

\* t occurs in s as a contiguous piece (Python: t in s)
Contains(s, t) ==
    \E i \in 0..(Len(s) - Len(t)) :
        \A j \in 1..Len(t) : s[i + j] = t[j]

\* a line holding nothing but whitespace
Blank(l) == \A i \in 1..Len(l) : l[i] = IND

-----------------------------------------------------------------------------
(* The form (lines 80-130) *)

\* email_intent_options
Intents == {"Inquiry", "Submission", "Thank You", "Collaboration Request",
            "Follow-up", "General"}

\* the two fixed labels of the optional lines of the template
PaperLabel == "Relevant Paper/Manuscript Details: "
OtherLabel == "Other Specific Information: "

\* What a user can type.  st.text_input is single-line, st.text_area accepts
\* newlines.  Nothing stops a user from typing the text of a template label.
RecipientChars == {"a", PaperLabel}
PaperChars == {"a", OtherLabel}
AreaChars == {"b", NL}

Requests(n) ==
    [prompt : SeqsUpTo(AreaChars, n),
     intent : Intents,
     recipient_name : SeqsUpTo(RecipientChars, n),
     paper_details : SeqsUpTo(PaperChars, n),
     other_info : SeqsUpTo(AreaChars, n)]

\* the form's values in the script's runs: the handler looks at the core
\* prompt only and hands the other fields on unread
FormRequests(n) ==
    [prompt : SeqsUpTo(AreaChars, n),
     intent : Intents,
     recipient_name : {Empty, <<"a">>},
     paper_details : {Empty, <<"a">>},
     other_info : {Empty, <<"b">>}]

NoRequest ==
    [prompt |-> Empty, intent |-> "General", recipient_name |-> Empty,
     paper_details |-> Empty, other_info |-> Empty]

-----------------------------------------------------------------------------
(* Prompt composition: the f-string of generate_email_draft (lines 29-40) *)

\* faulty variant: {recipient_name}, no default
RecipientNoDefault(recipient_name) == recipient_name
\* {recipient_name if recipient_name else 'Colleague'}
RecipientOrDefault(recipient_name) ==
    IF Truthy(recipient_name) THEN recipient_name ELSE <<"Colleague">>

\* faulty variant: the label is written whether or not the value is empty
OptionalAlways(label, value) == <<label>> \o value
\* {f'<label>{value}' if value else ''}
Optional(label, value) ==
    IF Truthy(value) THEN <<label>> \o value ELSE Empty

Compose(prompt, intent, recipient_name, paper_details, other_info) ==
    <<NL,
      IND, "Draft a professional academic email with the following details:", NL,
      NL,
      IND, "Recipient Name: ">> \o RecipientOrDefault(recipient_name) \o <<NL,
      IND, "Email Intent: ", intent, NL,
      IND, "Core Message/Key Points: ">> \o prompt \o <<NL,
      IND>> \o Optional(PaperLabel, paper_details) \o <<NL,
      IND>> \o Optional(OtherLabel, other_info) \o <<NL,
      NL,
      IND, "Please structure the email appropriately with a subject line, salutation, body, and closing.", NL,
      IND, "Ensure the tone is professional and academic.", NL,
      IND>>

ComposeReq(r) ==
    Compose(r.prompt, r.intent, r.recipient_name, r.paper_details, r.other_info)

-----------------------------------------------------------------------------
(* Messages *)

\* line 25
NotConfiguredReturn ==
    <<"Error: OpenAI API not configured. Please set your API key as an environment variable.">>
\* line 156
NotConfiguredMessage ==
    <<"[warning] OpenAI API not configured. Please set your API key as an environment variable.">>
\* line 140
ValidationMessage ==
    <<"[warning] Please enter a core prompt for your email in the sidebar.">>
\* line 10
KeyMissingBanner ==
    <<"[warning] OpenAI API Key not found in environment variables. Please set it.">>
\* line 15
ConfigFailedBanner ==
    <<"[warning] Error configuring OpenAI API: ", "constructor error">>
\* line 185
InfoText ==
    <<"Please fill in the details in the sidebar and click 'Generate Email Draft'.">>
\* line 55: f"Error generating email draft with OpenAI API: {e}"
GenerationError(e) == <<"Error generating email draft with OpenAI API: ", e>>

ConfigurationErrors == {NotConfiguredReturn, NotConfiguredMessage}

-----------------------------------------------------------------------------
(* Configuration (lines 7-15) *)

\* os.environ.get returns None when the variable is unset
None == "None"
KeyValues == {None, "", "sk-test"}

\* `not OPENAI_API_KEY`
KeyMissing(key) == key = None \/ key = ""

\* faulty variant: `if OPENAI_API_KEY is None`, an empty key builds a client
ClientDefinedUnlessNone(key, raises) == key # None /\ ~raises
\* the name `client` is bound iff the key is truthy and the constructor
\* returned (lines 11-13); this is what lines 24 and 146 test
ClientDefined(key, raises) == ~KeyMissing(key) /\ ~raises

client == ClientDefined(env_key, ctor_raises)

\* st.error calls of the configuration block
ConfigBanners(key, raises) ==
    IF KeyMissing(key) THEN {KeyMissingBanner}
    ELSE IF raises THEN {ConfigFailedBanner}
    ELSE {}

-----------------------------------------------------------------------------
(* The external service, as seen through client.chat.completions.create *)

\* faults raised by the call itself
CallFaults == {"Connection error.", "Incorrect API key provided", "The server had an error"}
\* faults raised by line 52 on a response that has no first choice, or no choices at all
IndexError == "list index out of range"
AttributeError == "'NoneType' object has no attribute 'choices'"
ExtractFaults == {IndexError, AttributeError}

Contents == {<<"Dear Colleague, ...">>, <<"Dear Dr. Vance, ...">>, Empty}

\* a response is its list of choices' message contents, or an object
\* without a usable `choices`
Responses ==
    {[kind |-> "response", choices |-> cs] :
        cs \in {<<>>} \cup {<<c>> : c \in Contents}
               \cup {<< <<"Dear Colleague, ...">>, <<"Dear Dr. Vance, ...">> >>}}
    \cup {[kind |-> "malformed"]}
Raises == {[kind |-> "raise", exc |-> e] : e \in CallFaults}
Outcomes == Responses \cup Raises
NoOutcome == [kind |-> "none"]
NoReturn == <<"<no return>">>

\* faulty variant: response.choices[-1].message.content
LastChoice(choices) == choices[Len(choices)]
\* response.choices[0].message.content
FirstChoice(choices) == choices[1]

\* faulty variant: `except openai.OpenAIError`, the faults of line 52 escape
CaughtCallFaultsOnly(e) == e \in CallFaults
\* `except Exception`: every fault above is an Exception
Caught(e) == e \in CallFaults \cup ExtractFaults

-----------------------------------------------------------------------------
(* The handler's decisions (lines 138-156) *)

\* faulty variant: the prompt is not validated
PromptMissingNever(prompt) == FALSE
\* `if not user_prompt`
PromptMissing(prompt) == ~Truthy(prompt)

\* faulty variant: line 141 missing
DraftKept(d) == d
\* line 141: st.session_state.draft = ""
DraftOnValidationError(d) == Empty

\* faulty variant: line 143 missing
ErrorKept(e) == e
\* line 143: st.session_state.error_message = ""
ErrorOnAttempt(e) == Empty

\* faulty variant: the call is made again after a failure
AfterExceptRetry == "fn_create"
\* where control goes after `except Exception as e` has built the string:
\* line 55 returns, nothing loops back to line 43
AfterExcept == "fn_return"

-----------------------------------------------------------------------------
(* Initial state: a fresh session after the script's first run (lines 71-74),
   in a process whose environment is fixed *)

Init ==
    /\ env_key \in KeyValues
    /\ ctor_raises \in BOOLEAN
    /\ (ctor_raises => ~KeyMissing(env_key))
    /\ draft = Empty
    /\ error_message = Empty
    /\ pc = "idle"
    /\ caller = "handler"
    /\ req = NoRequest
    /\ generate_button = FALSE
    /\ ai_prompt = Empty
    /\ outcome = NoOutcome
    /\ ret = NoReturn
    /\ calls = 0
    /\ shown = {}
    /\ before = <<Empty, Empty>>

env == <<env_key, ctor_raises>>
session == <<draft, error_message>>

-----------------------------------------------------------------------------
(* The script (one rerun per user interaction) *)

\* lines 7-15, 59-136: configuration block, widgets, display of the error
\* message left by the previous run
Start(r, button) ==
    /\ pc = "idle"
    /\ req' = r
    /\ generate_button' = button
    /\ caller' = "handler"
    /\ calls' = 0
    /\ ai_prompt' = Empty
    /\ outcome' = NoOutcome
    /\ ret' = NoReturn
    /\ shown' = ConfigBanners(env_key, ctor_raises)
                  \cup (IF Truthy(error_message) THEN {error_message} ELSE {})
    /\ before' = <<draft, error_message>>
    /\ pc' = IF button THEN "handler" ELSE "render"
    /\ UNCHANGED <<env, session>>

Rerun ==
    /\ pc = "idle"
    /\ \E r \in FormRequests(MaxLen), button \in BOOLEAN : Start(r, button)

\* lines 139-141
HandlerReject ==
    /\ pc = "handler"
    /\ PromptMissing(req.prompt)
    /\ error_message' = ValidationMessage
    /\ draft' = DraftOnValidationError(draft)
    /\ pc' = "render"
    /\ UNCHANGED <<env, caller, req, generate_button, ai_prompt, outcome, ret,
                   calls, shown, before>>

\* lines 142-153: clear the error, call generate_email_draft
HandlerGenerate ==
    /\ pc = "handler"
    /\ ~PromptMissing(req.prompt)
    /\ client
    /\ error_message' = ErrorOnAttempt(error_message)
    /\ pc' = "fn_guard"
    /\ UNCHANGED <<env, draft, caller, req, generate_button, ai_prompt,
                   outcome, ret, calls, shown, before>>

\* lines 142-146, 155-156: no client
HandlerNotConfigured ==
    /\ pc = "handler"
    /\ ~PromptMissing(req.prompt)
    /\ ~client
    /\ error_message' = NotConfiguredMessage
    /\ pc' = "render"
    /\ UNCHANGED <<env, draft, caller, req, generate_button, ai_prompt,
                   outcome, ret, calls, shown, before>>

\* line 154: st.session_state.draft = draft
HandlerStore ==
    /\ pc = "fn_return"
    /\ caller = "handler"
    /\ draft' = ret
    /\ pc' = "render"
    /\ UNCHANGED <<env, error_message, caller, req, generate_button,
                   ai_prompt, outcome, ret, calls, shown, before>>

\* the script's names go out of scope when a run ends
Discard ==
    /\ req' = NoRequest
    /\ generate_button' = FALSE
    /\ ai_prompt' = Empty
    /\ outcome' = NoOutcome
    /\ ret' = NoReturn
    /\ calls' = 0
    /\ before' = <<Empty, Empty>>

\* lines 162-185, and the end of the run
Render ==
    /\ pc = "render"
    /\ shown' = shown \cup
          (IF Truthy(draft) THEN {draft}
           ELSE IF ~Truthy(error_message) THEN {InfoText} ELSE {})
    /\ pc' = "idle"
    /\ Discard
    /\ UNCHANGED <<env, session, caller>>

-----------------------------------------------------------------------------
(* generate_email_draft (lines 19-55) *)

\* a call from outside the script (a test of the function)
Call(r) ==
    /\ pc = "idle"
    /\ req' = r
    /\ generate_button' = FALSE
    /\ caller' = "direct"
    /\ calls' = 0
    /\ ai_prompt' = Empty
    /\ outcome' = NoOutcome
    /\ ret' = NoReturn
    /\ shown' = {}
    /\ before' = <<draft, error_message>>
    /\ pc' = "fn_guard"
    /\ UNCHANGED <<env, session>>

Invoke ==
    /\ pc = "idle"
    /\ \E r \in FormRequests(MaxLen) : Call(r)
InvokeAny ==
    /\ pc = "idle"
    /\ \E r \in Requests(MaxLen) : Call(r)

\* lines 24-25
FnNotConfigured ==
    /\ pc = "fn_guard"
    /\ ~client
    /\ ret' = NotConfiguredReturn
    /\ pc' = "fn_return"
    /\ UNCHANGED <<env, session, caller, req, generate_button, ai_prompt,
                   outcome, calls, shown, before>>

\* lines 29-40
FnCompose ==
    /\ pc = "fn_guard"
    /\ client
    /\ ai_prompt' = ComposeReq(req)
    /\ pc' = "fn_create"
    /\ UNCHANGED <<env, session, caller, req, generate_button, outcome, ret,
                   calls, shown, before>>

\* lines 43-51: the one outbound call; the service answers or the call raises
FnCreate ==
    /\ pc = "fn_create"
    /\ calls' = calls + 1
    /\ \E o \in Outcomes :
        /\ outcome' = o
        /\ pc' = IF o.kind = "raise" THEN "fn_except" ELSE "fn_extract"
    /\ UNCHANGED <<env, session, caller, req, generate_button, ai_prompt, ret,
                   shown, before>>

\* line 52: return response.choices[0].message.content
FnExtract ==
    /\ pc = "fn_extract"
    /\ IF outcome.kind = "malformed"
       THEN /\ outcome' = [kind |-> "raise", exc |-> AttributeError]
            /\ pc' = "fn_except"
            /\ ret' = ret
       ELSE IF outcome.choices = <<>>
       THEN /\ outcome' = [kind |-> "raise", exc |-> IndexError]
            /\ pc' = "fn_except"
            /\ ret' = ret
       ELSE /\ ret' = FirstChoice(outcome.choices)
            /\ pc' = "fn_return"
            /\ outcome' = outcome
    /\ UNCHANGED <<env, session, caller, req, generate_button, ai_prompt,
                   calls, shown, before>>

\* lines 54-55: except Exception as e: return f"...{e}"
FnExcept ==
    /\ pc = "fn_except"
    /\ IF Caught(outcome.exc)
       THEN /\ ret' = GenerationError(outcome.exc)
            /\ pc' = AfterExcept
       ELSE /\ ret' = ret
            /\ pc' = "propagated"
    /\ UNCHANGED <<env, session, caller, req, generate_button, ai_prompt,
                   outcome, calls, shown, before>>

\* the direct caller receives the value
FnReturnDirect ==
    /\ pc = "fn_return"
    /\ caller = "direct"
    /\ pc' = "idle"
    /\ Discard
    /\ UNCHANGED <<env, session, caller, shown>>

FnSteps ==
    \/ FnNotConfigured
    \/ FnCompose
    \/ FnCreate
    \/ FnExtract
    \/ FnExcept
    \/ FnReturnDirect

-----------------------------------------------------------------------------
(* Specifications *)

\* the application: reruns of the script, and direct calls of the function
Next ==
    \/ Rerun
    \/ HandlerReject
    \/ HandlerGenerate
    \/ HandlerNotConfigured
    \/ HandlerStore
    \/ Render
    \/ Invoke
    \/ FnSteps

Spec == Init /\ [][Next]_vars

\* the function alone, over longer arguments
NextFn == InvokeAny \/ FnSteps

SpecFn == Init /\ [][NextFn]_vars

-----------------------------------------------------------------------------
(* Properties of the handler *)

\* a trigger action is a run of the script with the button pressed
Triggered == caller = "handler" /\ generate_button
\* the handler has finished (control is at line 162)
HandlerDone == Triggered /\ pc = "render"
\* control is inside generate_email_draft
InFunction == pc \in {"fn_guard", "fn_create", "fn_extract", "fn_except", "fn_return"}
\* generate_email_draft was never entered by the current action
ClientNotInvoked ==
    ~InFunction /\ calls = 0 /\ ai_prompt = Empty /\ outcome = NoOutcome /\ ret = NoReturn

\* C1: a trigger action with an empty core message never enters the
\* Generation Client and makes no outbound call, and when its handler has
\* finished error_message holds the validation error and the stored draft is
\* empty, whatever draft was stored before.
C1_EmptyPromptRejected ==
    (Triggered /\ req.prompt = Empty) =>
        /\ ClientNotInvoked
        /\ pc = "render" =>
            /\ error_message = ValidationMessage
            /\ draft = Empty

\* the rejection has happened and replaced a non-empty draft
C1_Witness ==
    /\ HandlerDone
    /\ req.prompt = Empty
    /\ Truthy(before[1])
    /\ draft = Empty
    /\ error_message = ValidationMessage

\* no client was initialised: the key is unset or empty, or the constructor raised
NoCredential == KeyMissing(env_key) \/ ctor_raises

\* C2 as stated: without a credential, nothing makes an outbound call, every
\* invocation of generate_email_draft returns a configuration-error string,
\* and every trigger action ends with a configuration-error string.
C2_Original ==
    NoCredential =>
        /\ calls = 0
        /\ pc = "fn_return" => ret \in ConfigurationErrors
        /\ HandlerDone => error_message \in ConfigurationErrors

\* C2 as amended: without a credential, nothing makes an outbound call, every
\* invocation of generate_email_draft returns the configuration-error string,
\* and a trigger action ends with the configuration-error string in
\* error_message when the core message is non-empty, and with the validation
\* error when it is empty.
C2_NoCredentialNoCall ==
    NoCredential =>
        /\ calls = 0
        /\ pc \notin {"fn_create", "fn_extract", "fn_except"}
        /\ pc = "fn_return" => ret = NotConfiguredReturn
        /\ HandlerDone =>
            error_message =
                IF req.prompt = Empty THEN ValidationMessage ELSE NotConfiguredMessage

\* a trigger action with a core message has ended on the configuration error
C2_Witness ==
    /\ NoCredential
    /\ HandlerDone
    /\ Truthy(req.prompt)
    /\ error_message = NotConfiguredMessage
    /\ calls = 0

\* C3: in every reachable state the stored draft and the stored
\* error_message are not both non-empty.
C3_NeverDraftAndError == ~(Truthy(draft) /\ Truthy(error_message))

\* a draft was stored by an action that began with an error stored
C3_Witness ==
    /\ HandlerDone
    /\ Truthy(before[2])
    /\ Truthy(draft)
    /\ error_message = Empty

\* C4: a trigger action makes at most one outbound call at any point, also
\* after a failed call, and when its handler has finished it has made exactly
\* one if the core message is non-empty and the client was initialised from
\* the credential, and none otherwise.
C4_AtMostOneCall ==
    caller = "handler" =>
        /\ calls <= 1
        /\ (~generate_button) => calls = 0
        /\ HandlerDone =>
            calls = IF Truthy(req.prompt) /\ client THEN 1 ELSE 0

\* the one call failed and the handler finished without a second one
C4_Witness ==
    /\ HandlerDone
    /\ outcome.kind = "raise"
    /\ calls = 1

\* C6: whenever a trigger action is inside generate_email_draft, or has made
\* its outbound call, error_message is empty: the error of an earlier action
\* is cleared before generation is attempted and does not come back.
C6_ErrorClearedBeforeCall ==
    (caller = "handler" /\ (InFunction \/ calls > 0)) => error_message = Empty

\* the outbound call was made by an action that began with an error stored
C6_Witness ==
    /\ caller = "handler"
    /\ pc = "fn_extract"
    /\ calls = 1
    /\ Truthy(before[2])
    /\ error_message = Empty

\* C10: when the handler of a trigger action with a non-empty core message
\* and an initialised client has finished, the stored draft is exactly the
\* value generate_email_draft returned and error_message is empty; that value
\* is the first choice's content, unmodified, when the service answered with
\* a choice, and the generation-failure string when the call failed.
C10_DraftIsReturnValue ==
    (HandlerDone /\ Truthy(req.prompt) /\ client) =>
        /\ draft = ret
        /\ error_message = Empty
        /\ outcome.kind = "response" => draft = outcome.choices[1]
        /\ outcome.kind = "raise" =>
            draft = <<"Error generating email draft with OpenAI API: ", outcome.exc>>

\* a generation failure sits in the draft slot
C10_Witness ==
    /\ HandlerDone
    /\ outcome.kind = "raise"
    /\ outcome.exc \in CallFaults
    /\ draft = GenerationError(outcome.exc)
    /\ error_message = Empty

-----------------------------------------------------------------------------
(* Properties of generate_email_draft *)

\* the instruction has been composed (control is past line 40)
Composed == pc \in {"fn_create", "fn_extract", "fn_except", "fn_return"} /\ client

\* number of lines of a text that hold the label
LabelLines(text, label) ==
    LET ls == Lines(text)
    IN  Cardinality({i \in 1..Len(ls) : Contains(ls[i], <<label>>)})

\* the label's text occurs in some field of the request
Typed(r, label) ==
    \/ Contains(r.prompt, <<label>>)
    \/ Contains(r.recipient_name, <<label>>)
    \/ Contains(r.paper_details, <<label>>)
    \/ Contains(r.other_info, <<label>>)

\* the optional line of a field: present once with the value right after the
\* label when the value is non-empty, absent when it is empty
OptionalLineOk(text, label, value) ==
    IF Truthy(value)
    THEN LabelLines(text, label) = 1 /\ Contains(text, <<label>> \o value)
    ELSE LabelLines(text, label) = 0

\* C5: no fault of the external call leaves generate_email_draft: a fault
\* raised by the call, or by reading a response without a first choice, ends
\* in a returned string that carries the fault's text, and every return of
\* the function returns a string.
C5_FaultsBecomeStrings ==
    /\ pc # "propagated"
    /\ pc = "fn_return" =>
        /\ ret # NoReturn
        /\ outcome.kind = "raise" =>
            /\ ret = <<"Error generating email draft with OpenAI API: ", outcome.exc>>
            /\ Contains(ret, <<outcome.exc>>)
    /\ pc = "fn_except" => outcome.kind = "raise"

\* an empty choices list came back and the function returned the error string
C5_Witness ==
    /\ pc = "fn_return"
    /\ outcome = [kind |-> "raise", exc |-> IndexError]
    /\ ret = GenerationError(IndexError)

\* C7 as stated: for every request the composed instruction has exactly one
\* 'Relevant Paper/Manuscript Details' line, holding paper_details verbatim,
\* when paper_details is non-empty and none when it is empty, and likewise
\* for 'Other Specific Information' and other_info.
C7_Original ==
    Composed =>
        /\ OptionalLineOk(ai_prompt, PaperLabel, req.paper_details)
        /\ OptionalLineOk(ai_prompt, OtherLabel, req.other_info)

\* C7 as amended: the same, for each label, for every request none of whose
\* fields contains that label's text.
C7_OptionalLines ==
    Composed =>
        /\ ~Typed(req, PaperLabel) =>
               OptionalLineOk(ai_prompt, PaperLabel, req.paper_details)
        /\ ~Typed(req, OtherLabel) =>
               OptionalLineOk(ai_prompt, OtherLabel, req.other_info)

\* one optional field filled, the other empty, no label typed by the user
C7_Witness ==
    /\ Composed
    /\ ~Typed(req, PaperLabel) /\ ~Typed(req, OtherLabel)
    /\ Truthy(req.paper_details) /\ ~Truthy(req.other_info)
    /\ LabelLines(ai_prompt, PaperLabel) = 1
    /\ LabelLines(ai_prompt, OtherLabel) = 0

\* the request with one field replaced
WithPaper(r, v) == [r EXCEPT !.paper_details = v]
WithOther(r, v) == [r EXCEPT !.other_info = v]
\* index of the line that follows the core message's last line
AfterCore(r) == 5 + Len(Lines(r.prompt)) + 1

\* C8: with an empty optional field the composed instruction has one line
\* fewer than for the same request with that field filled in, and the line
\* at the field's position is not blank.
C8_EmptyFieldOmitsLine ==
    Composed =>
        /\ ~Truthy(req.paper_details) =>
            /\ Len(Lines(ai_prompt)) =
                   Len(Lines(ComposeReq(WithPaper(req, <<"a">>)))) - 1
            /\ ~Blank(Lines(ai_prompt)[AfterCore(req)])
        /\ ~Truthy(req.other_info) =>
            /\ Len(Lines(ai_prompt)) =
                   Len(Lines(ComposeReq(WithOther(req, <<"b">>)))) - 1
            /\ ~Blank(Lines(ai_prompt)[AfterCore(req) + 1])

\* C9: the composed instruction holds the core message verbatim after its
\* label and the intent verbatim after its label; its recipient line holds
\* recipient_name when that is non-empty and 'Colleague' when it is empty,
\* and is never left empty; and the instruction for any other intent differs
\* in the intent's text only.
C9_CoreIntentRecipient ==
    Composed =>
        /\ Contains(ai_prompt, <<"Core Message/Key Points: ">> \o req.prompt \o <<NL>>)
        /\ Contains(ai_prompt, <<IND, "Email Intent: ", req.intent, NL>>)
        /\ Lines(ai_prompt)[4] =
               <<IND, "Recipient Name: ">> \o
                   (IF req.recipient_name = Empty THEN <<"Colleague">>
                    ELSE req.recipient_name)
        /\ Lines(ai_prompt)[4] # <<IND, "Recipient Name: ">>
        /\ \A i \in Intents :
               LET other == ComposeReq([req EXCEPT !.intent = i])
               IN  /\ Len(other) = Len(ai_prompt)
                   /\ \A k \in 1..Len(other) :
                          other[k] # ai_prompt[k] =>
                              (ai_prompt[k] = req.intent /\ other[k] = i)

\* an instruction composed for a request without a recipient name
C9_Witness ==
    /\ Composed
    /\ req.recipient_name = Empty
    /\ Truthy(req.prompt)
    /\ Lines(ai_prompt)[4] = <<IND, "Recipient Name: ", "Colleague">>

====
